---- MODULE Spec2Model ----
(***************************************************************************)
(* A model of fdisk/mbr.py: the CHS and LBA address codecs, the 16-byte    *)
(* partition entry codec and the 512-byte master boot record codec.        *)
(*                                                                         *)
(* Python values are modelled as follows.                                  *)
(*   - bytes / bytearray : a sequence of integers 0..255                   *)
(*   - small ints (cylinder, head, sector, type byte) : TLA+ integers      *)
(*   - ints that may need 32 bits or more (unique_id, LBA sector,          *)
(*     sector_count, byte counts) : a record [hi, lo] standing for         *)
(*     hi * 65536 + lo with lo \in 0..65535, because the model checker's   *)
(*     own integers are 32-bit signed                                      *)
(*   - objects : records with a field cls; None is [cls |-> "None"]        *)
(*   - a call that may raise : a record [exc, v]; exc = "" means the call  *)
(*     returned v, otherwise exc names the exception raised                *)
(***************************************************************************)
EXTENDS Integers, Sequences, FiniteSets, TLC

None == [cls |-> "None"]

Ok(v) == [exc |-> "", v |-> v]

Raise(e) == [exc |-> e, v |-> None]

(***************************************************************************)
(* Integer helpers: Python's bit operators on non-negative ints.           *)
(***************************************************************************)
RECURSIVE BitAnd(_, _)
BitAnd(a, b) ==
    IF a = 0 \/ b = 0 THEN 0
    ELSE (a % 2) * (b % 2) + 2 * BitAnd(a \div 2, b \div 2)

RECURSIVE BitOr(_, _)
BitOr(a, b) ==
    IF a = 0 THEN b
    ELSE IF b = 0 THEN a
    ELSE (IF (a % 2) + (b % 2) > 0 THEN 1 ELSE 0) + 2 * BitOr(a \div 2, b \div 2)

RECURSIVE Pow2(_)
Pow2(n) == IF n = 0 THEN 1 ELSE 2 * Pow2(n - 1)

Shr(a, n) == a \div Pow2(n)

Shl(a, n) == a * Pow2(n)

(***************************************************************************)
(* Wide integers.                                                          *)
(***************************************************************************)
W(hi, lo) == [cls |-> "int", hi |-> hi, lo |-> lo]

Norm(hi, lo) == W(hi + (lo \div 65536), lo % 65536)

WAdd(a, b) == Norm(a.hi + b.hi, a.lo + b.lo)

WSubInt(a, n) == Norm(a.hi, a.lo - n)

WMulInt(a, n) == Norm(a.hi * n, a.lo * n)

WZero == W(0, 0)

(***************************************************************************)
(* Python slicing b[lo:hi] on a bytes value (offsets are 0-based, the      *)
(* slice is clipped to the length of b), and bytes(list_of_ints).          *)
(***************************************************************************)
Min(a, b) == IF a < b THEN a ELSE b

Slice(b, lo, hi) == SubSeq(b, lo + 1, Min(hi, Len(b)))

BytesOfList(l) ==
    IF \A i \in 1..Len(l) : l[i] \in 0..255 THEN Ok(l) ELSE Raise("ValueError")

(***************************************************************************)
(* struct.pack / struct.unpack for the formats the module uses.            *)
(***************************************************************************)
struct_pack_I(x) ==
    IF x.cls # "int" THEN Raise("struct.error")
    ELSE IF x.hi < 0 \/ x.hi > 65535 THEN Raise("struct.error")
    ELSE Ok(<<x.lo % 256, x.lo \div 256, x.hi % 256, x.hi \div 256>>)

struct_unpack_I(b) ==
    IF Len(b) # 4 THEN Raise("struct.error")
    ELSE Ok(W(b[3] + 256 * b[4], b[1] + 256 * b[2]))

struct_pack_H(n) ==
    IF n < 0 \/ n > 65535 THEN Raise("struct.error")
    ELSE Ok(<<n % 256, n \div 256>>)

struct_unpack_H(b) ==
    IF Len(b) # 2 THEN Raise("struct.error")
    ELSE Ok(b[1] + 256 * b[2])

SECTOR_SIZE == 512

(***************************************************************************)
(* class LogicalBlockAddress                                               *)
(***************************************************************************)
LogicalBlockAddress(sector) == [cls |-> "LogicalBlockAddress", sector |-> sector]

byte_offset(self) == WMulInt(self.sector, SECTOR_SIZE)

LogicalBlockAddress_bytes(self) == struct_pack_I(self.sector)

(***************************************************************************)
(* class CHSAddress                                                        *)
(***************************************************************************)
CHSAddress(cylinder, head, sector) ==
    [cls |-> "CHSAddress", cylinder |-> cylinder, head |-> head, sector |-> sector]

CHSAddress_parse_mask(b) ==
    IF Len(b) < 3 THEN Raise("IndexError")
    ELSE LET head == b[1]
             sector == BitAnd(b[2], 31)
             cylinder == BitOr(b[3], Shl(Shr(b[2], 6), 8))
         IN Ok(CHSAddress(cylinder, head, sector))

CHSAddress_parse(b) ==
    IF Len(b) < 3 THEN Raise("IndexError")
    ELSE LET head == b[1]
             sector == BitAnd(b[2], 63)
             cylinder == BitOr(b[3], Shl(Shr(b[2], 6), 8))
         IN Ok(CHSAddress(cylinder, head, sector))

CHSAddress_bytes_sector64(self) ==
    IF ~(0 <= self.cylinder /\ self.cylinder <= 1024) THEN Raise("AssertionError")
    ELSE IF ~(0 <= self.head /\ self.head <= 255) THEN Raise("AssertionError")
    ELSE IF ~(0 <= self.sector /\ self.sector <= 64) THEN Raise("AssertionError")
    ELSE LET b1 == self.head
             b2 == BitOr(self.sector, Shl(Shr(self.cylinder, 8), 6))
             b3 == BitAnd(self.cylinder, 255)
         IN BytesOfList(<<b1, b2, b3>>)

CHSAddress_bytes(self) ==
    IF ~(0 <= self.cylinder /\ self.cylinder <= 1024) THEN Raise("AssertionError")
    ELSE IF ~(0 <= self.head /\ self.head <= 255) THEN Raise("AssertionError")
    ELSE IF ~(0 <= self.sector /\ self.sector <= 63) THEN Raise("AssertionError")
    ELSE LET b1 == self.head
             b2 == BitOr(self.sector, Shl(Shr(self.cylinder, 8), 6))
             b3 == BitAnd(self.cylinder, 255)
         IN BytesOfList(<<b1, b2, b3>>)

(***************************************************************************)
(* class PartitionId(IntEnum): the members in definition order.  Several   *)
(* names share the value 7; the enum lookup PartitionId(v) yields the      *)
(* first member defined with that value, the later names are aliases.      *)
(***************************************************************************)
PartitionId ==
    << <<"EMPTY", 0>>, <<"FAT12", 1>>, <<"XENIX_ROOT", 2>>, <<"XENIX_USR", 3>>,
       <<"DOS_FAT16_LT_32M", 4>>, <<"DOS_EXTENDED", 5>>, <<"DOS_FAT16", 6>>,
       <<"NT_NTFS", 7>>, <<"EX_FAT", 7>>, <<"HPFS", 7>>, <<"QNX2", 7>>,
       <<"OS2_LT_V13", 8>>, <<"OS2_BOOT_MANAGER", 10>>, <<"WIN95_FAT32", 11>>,
       <<"WIN95_FAT32_LBA", 12>>, <<"WIN95_FAT16_LBA", 14>>, <<"WIN95_EXT_LBA", 15>>,
       <<"HIDDEN_FAT12", 17>>, <<"HIDDEN_DOS_FAT16_LT_32M", 20>>,
       <<"HIDDEN_DOS_FAT16", 22>>, <<"HIDDEN_HPFS", 23>>,
       <<"HIDDEN_WIN95_FAT32", 27>>, <<"HIDDEN_WIN95_FAT32_LBA", 28>>,
       <<"HIDDEN_WIN95_FAT16_LBA", 30>>, <<"PLAN_9", 57>>, <<"LINUX_SWAP", 130>>,
       <<"LINUX", 131>>, <<"LINUX_EXTENDED", 133>>, <<"LINUX_LLVM", 142>>,
       <<"HIDDEN_LINUX", 147>>, <<"FREEBSD", 165>>, <<"OPENBSD", 166>>,
       <<"NETBSD", 169>>, <<"HFS_HFS_PLUS", 175>>, <<"GPT", 238>>, <<"EFI", 239>>,
       <<"LINUX_RAID", 253>> >>

PartitionIdValues == { PartitionId[i][2] : i \in 1..Len(PartitionId) }

\* PartitionId(v) for a value v that is a member value
PartitionIdOf(v) ==
    LET first == CHOOSE i \in 1..Len(PartitionId) :
                    /\ PartitionId[i][2] = v
                    /\ \A j \in 1..(i - 1) : PartitionId[j][2] # v
    IN [cls |-> "PartitionId", name |-> PartitionId[first][1], value |-> v]

\* a plain int used as a partition type
RawType(v) == [cls |-> "rawint", name |-> "", value |-> v]

PARTITION_ENTRY_SIZE == 16

(***************************************************************************)
(* class PartitionEntry                                                    *)
(***************************************************************************)
PartitionEntry(bootable, partition_type, start_block_address, sector_count, start_chs, end_chs) ==
    [cls |-> "PartitionEntry", bootable |-> bootable,
     partition_type |-> partition_type,
     start_block_address |-> start_block_address,
     sector_count |-> sector_count, start_chs |-> start_chs, end_chs |-> end_chs]

end_block_address_exclusive(self) ==
    IF self.sector_count = WZero THEN self.start_block_address
    ELSE LogicalBlockAddress(WAdd(self.start_block_address.sector, self.sector_count))

end_block_address(self) ==
    IF self.sector_count = WZero THEN self.start_block_address
    ELSE LogicalBlockAddress(
            WSubInt(WAdd(self.start_block_address.sector, self.sector_count), 1))

byte_count(self) == WMulInt(self.sector_count, SECTOR_SIZE)

\* the __eq__ that @dataclass generates: field by field; an IntEnum member
\* equals the int of the same value
PartitionEntry_eq(a, b) ==
    IF a = None \/ b = None THEN a = b
    ELSE /\ a.bootable = b.bootable
         /\ a.partition_type.value = b.partition_type.value
         /\ a.start_block_address = b.start_block_address
         /\ a.sector_count = b.sector_count
         /\ a.start_chs = b.start_chs
         /\ a.end_chs = b.end_chs

\* A source handed to read(): bytes/bytearray, a binary stream, or anything else
Source(kind, data) == [kind |-> kind, data |-> data]

\* struct.unpack("<BxxxBxxxII", raw)
struct_unpack_entry(raw) ==
    IF Len(raw) # 16 THEN Raise("struct.error")
    ELSE Ok([attrib |-> raw[1], part_type |-> raw[5],
             lba_start |-> W(raw[11] + 256 * raw[12], raw[9] + 256 * raw[10]),
             sector_count |-> W(raw[15] + 256 * raw[16], raw[13] + 256 * raw[14])])

PartitionEntry_read_flag40(fp) ==
    LET bootable_partition_flag == 64 IN
    IF fp.kind \notin {"bytes", "stream"} THEN Raise("ValueError")
    ELSE LET raw == IF fp.kind = "bytes" THEN fp.data
                    ELSE Slice(fp.data, 0, PARTITION_ENTRY_SIZE)
         IN IF Len(raw) < PARTITION_ENTRY_SIZE THEN Ok(None)
            ELSE LET u == struct_unpack_entry(raw) IN
                 IF u.exc # "" THEN u
                 ELSE LET part_type == IF u.v.part_type \in PartitionIdValues
                                       THEN PartitionIdOf(u.v.part_type)
                                       ELSE RawType(u.v.part_type)
                          start_chs == CHSAddress_parse(Slice(raw, 1, 4))
                          end_chs == CHSAddress_parse(Slice(raw, 5, 8))
                      IN IF start_chs.exc # "" THEN start_chs
                         ELSE IF end_chs.exc # "" THEN end_chs
                         ELSE Ok(PartitionEntry(
                                    BitAnd(u.v.attrib, bootable_partition_flag) # 0,
                                    part_type,
                                    LogicalBlockAddress(u.v.lba_start),
                                    u.v.sector_count, start_chs.v, end_chs.v))

PartitionEntry_read(fp) ==
    LET bootable_partition_flag == 128 IN
    IF fp.kind \notin {"bytes", "stream"} THEN Raise("ValueError")
    ELSE LET raw == IF fp.kind = "bytes" THEN fp.data
                    ELSE Slice(fp.data, 0, PARTITION_ENTRY_SIZE)
         IN IF Len(raw) < PARTITION_ENTRY_SIZE THEN Ok(None)
            ELSE LET u == struct_unpack_entry(raw) IN
                 IF u.exc # "" THEN u
                 ELSE LET part_type == IF u.v.part_type \in PartitionIdValues
                                       THEN PartitionIdOf(u.v.part_type)
                                       ELSE RawType(u.v.part_type)
                          start_chs == CHSAddress_parse(Slice(raw, 1, 4))
                          end_chs == CHSAddress_parse(Slice(raw, 5, 8))
                      IN IF start_chs.exc # "" THEN start_chs
                         ELSE IF end_chs.exc # "" THEN end_chs
                         ELSE Ok(PartitionEntry(
                                    BitAnd(u.v.attrib, bootable_partition_flag) # 0,
                                    part_type,
                                    LogicalBlockAddress(u.v.lba_start),
                                    u.v.sector_count, start_chs.v, end_chs.v))

\* bytes(x) for an Optional[CHSAddress]: bytes(None) is a TypeError
BytesOfCHS(x) == IF x = None THEN Raise("TypeError") ELSE CHSAddress_bytes(x)

PartitionEntry_bytes_swapped(self) ==
    LET p1 == Ok(<<IF self.bootable THEN 128 ELSE 0>>)
        p2 == BytesOfCHS(self.end_chs)
        p3 == BytesOfList(<<self.partition_type.value>>)
        p4 == BytesOfCHS(self.start_chs)
        p5 == LogicalBlockAddress_bytes(self.start_block_address)
        p6 == struct_pack_I(self.sector_count)
    IN IF p2.exc # "" THEN p2
       ELSE IF p3.exc # "" THEN p3
       ELSE IF p4.exc # "" THEN p4
       ELSE IF p5.exc # "" THEN p5
       ELSE IF p6.exc # "" THEN p6
       ELSE Ok(p1.v \o p2.v \o p3.v \o p4.v \o p5.v \o p6.v)

PartitionEntry_bytes(self) ==
    LET p1 == Ok(<<IF self.bootable THEN 128 ELSE 0>>)
        p2 == BytesOfCHS(self.start_chs)
        p3 == BytesOfList(<<self.partition_type.value>>)
        p4 == BytesOfCHS(self.end_chs)
        p5 == LogicalBlockAddress_bytes(self.start_block_address)
        p6 == struct_pack_I(self.sector_count)
    IN IF p2.exc # "" THEN p2
       ELSE IF p3.exc # "" THEN p3
       ELSE IF p4.exc # "" THEN p4
       ELSE IF p5.exc # "" THEN p5
       ELSE IF p6.exc # "" THEN p6
       ELSE Ok(p1.v \o p2.v \o p3.v \o p4.v \o p5.v \o p6.v)

UNIQUE_ID_OFFSET == 440

UNIQUE_ID_SIZE == 4

PARTITION_OFFSETS == <<446, 462, 478, 494>>

VALID_BOOT_SECTOR_OFFSET == 510

VALID_BOOT_SECTOR_SIZE == 2

VALID_MARKER == 43605

MBR_SIZE == 512

(***************************************************************************)
(* class MasterBootRecord                                                  *)
(***************************************************************************)
MasterBootRecord(unique_id, partitions) ==
    [cls |-> "MasterBootRecord", unique_id |-> unique_id, partitions |-> partitions]

\* the first exception raised by a sequence of calls, "" if none raised
FirstExc(rs) ==
    IF \A i \in 1..Len(rs) : rs[i].exc = "" THEN ""
    ELSE rs[CHOOSE i \in 1..Len(rs) :
                rs[i].exc # "" /\ \A j \in 1..(i - 1) : rs[j].exc = ""].exc

MasterBootRecord_read_nogate(fp, ignore_valid_marker) ==
    IF fp.kind \notin {"bytes", "stream"} THEN Raise("ValueError")
    ELSE LET data == IF fp.kind = "bytes" THEN fp.data
                     ELSE Slice(fp.data, 0, MBR_SIZE)
             unique_id == struct_unpack_I(
                 Slice(data, UNIQUE_ID_OFFSET, UNIQUE_ID_OFFSET + UNIQUE_ID_SIZE))
             partitions == [i \in 1..Len(PARTITION_OFFSETS) |->
                 PartitionEntry_read(Source("bytes",
                     Slice(data, PARTITION_OFFSETS[i],
                           PARTITION_OFFSETS[i] + PARTITION_ENTRY_SIZE)))]
             valid_marker == struct_unpack_H(
                 Slice(data, VALID_BOOT_SECTOR_OFFSET,
                       VALID_BOOT_SECTOR_OFFSET + VALID_BOOT_SECTOR_SIZE))
         IN IF unique_id.exc # "" THEN unique_id
            ELSE IF FirstExc(partitions) # "" THEN Raise(FirstExc(partitions))
            ELSE IF valid_marker.exc # "" THEN valid_marker
            ELSE IF valid_marker.v = VALID_MARKER
                 THEN Ok(MasterBootRecord(unique_id.v,
                            [i \in 1..Len(partitions) |-> partitions[i].v]))
                 ELSE Ok(None)

MasterBootRecord_read(fp, ignore_valid_marker) ==
    IF fp.kind \notin {"bytes", "stream"} THEN Raise("ValueError")
    ELSE LET data == IF fp.kind = "bytes" THEN fp.data
                     ELSE Slice(fp.data, 0, MBR_SIZE)
             unique_id == struct_unpack_I(
                 Slice(data, UNIQUE_ID_OFFSET, UNIQUE_ID_OFFSET + UNIQUE_ID_SIZE))
             partitions == [i \in 1..Len(PARTITION_OFFSETS) |->
                 PartitionEntry_read(Source("bytes",
                     Slice(data, PARTITION_OFFSETS[i],
                           PARTITION_OFFSETS[i] + PARTITION_ENTRY_SIZE)))]
             valid_marker == struct_unpack_H(
                 Slice(data, VALID_BOOT_SECTOR_OFFSET,
                       VALID_BOOT_SECTOR_OFFSET + VALID_BOOT_SECTOR_SIZE))
         IN IF unique_id.exc # "" THEN unique_id
            ELSE IF FirstExc(partitions) # "" THEN Raise(FirstExc(partitions))
            ELSE IF valid_marker.exc # "" THEN valid_marker
            ELSE IF ignore_valid_marker \/ valid_marker.v = VALID_MARKER
                 THEN Ok(MasterBootRecord(unique_id.v,
                            [i \in 1..Len(partitions) |-> partitions[i].v]))
                 ELSE Ok(None)

\* io.BytesIO: seek(off) followed by write(bs) overwrites in place and
\* extends the buffer when the write runs past its end
WriteAt(buf, off, bs) ==
    LET n == IF off + Len(bs) > Len(buf) THEN off + Len(bs) ELSE Len(buf)
    IN [i \in 1..n |->
            IF i > off /\ i <= off + Len(bs) THEN bs[i - off]
            ELSE IF i <= Len(buf) THEN buf[i] ELSE 0]

\* bytes(partition) for an Optional[PartitionEntry]: bytes(None) is a TypeError
BytesOfPartition(x) == IF x = None THEN Raise("TypeError") ELSE PartitionEntry_bytes(x)

\* the loop "for i, partition in enumerate(self.partitions)", run on buffer wr
RECURSIVE WritePartitions(_, _, _)
WritePartitions(wr, partitions, i) ==
    IF i > Len(partitions) THEN Ok(wr)
    ELSE IF i > Len(PARTITION_OFFSETS) THEN Raise("IndexError")
    ELSE LET pb == BytesOfPartition(partitions[i]) IN
         IF pb.exc # "" THEN pb
         ELSE WritePartitions(WriteAt(wr, PARTITION_OFFSETS[i], pb.v), partitions, i + 1)

MasterBootRecord_bytes_noid(self) ==
    LET wr0 == [i \in 1..512 |-> 0]
        wr1 == WritePartitions(wr0, self.partitions, 1)
    IN IF wr1.exc # "" THEN wr1
       ELSE LET m == struct_pack_H(VALID_MARKER) IN
            IF m.exc # "" THEN m
            ELSE Ok(WriteAt(wr1.v, VALID_BOOT_SECTOR_OFFSET, m.v))

MasterBootRecord_bytes(self) ==
    LET wr0 == [i \in 1..512 |-> 0]
        uid == struct_pack_I(IF self.unique_id = None \/ self.unique_id = WZero
                             THEN WZero ELSE self.unique_id)
    IN IF uid.exc # "" THEN uid
       ELSE LET wr1 == WritePartitions(WriteAt(wr0, UNIQUE_ID_OFFSET, uid.v),
                                       self.partitions, 1)
            IN IF wr1.exc # "" THEN wr1
               ELSE LET m == struct_pack_H(VALID_MARKER) IN
                    IF m.exc # "" THEN m
                    ELSE Ok(WriteAt(wr1.v, VALID_BOOT_SECTOR_OFFSET, m.v))

(***************************************************************************)
(* The inputs a caller may hand to the library.  Values are sampled at     *)
(* and around every boundary the code tests.                               *)
(***************************************************************************)
MaxOver == 2

MaxTrunc == 2

CylinderSamples == {-1, 0, 1, 255, 256, 767, 1023} \cup (1024..(1023 + MaxOver))

HeadSamples == {-1, 0, 1, 128, 255} \cup (256..(255 + MaxOver))

SectorSamples == {-1, 0, 1, 62, 63} \cup (64..(63 + MaxOver))

CHSObjects ==
    { CHSAddress(c, h, s) : c \in CylinderSamples, h \in HeadSamples, s \in SectorSamples }

ByteSamples == {0, 1, 63, 64, 127, 128, 192, 255}

CHSBuffers ==
    { <<x, y, z>> : x \in ByteSamples, y \in ByteSamples, z \in ByteSamples }
    \cup { <<>>, <<1>>, <<1, 2>>, <<254, 255, 255, 7>> }

\* 0, 100, 2^16, 2^32 - 1 and the first value that needs 33 bits
StartSamples == { W(0, 0), W(0, 100), W(1, 0), W(65535, 65535), W(65536, 0) }

CountSamples == { W(0, 0), W(0, 1), W(0, 50), W(65535, 65535), W(65536, 0) }

TypeSamples ==
    { RawType(0), RawType(7), PartitionIdOf(7), PartitionIdOf(131), RawType(153),
      RawType(255), RawType(256) }

EntryCHSSamples ==
    { None, CHSAddress(0, 0, 0), CHSAddress(1023, 255, 63), CHSAddress(1024, 0, 1) }

EntryObjects ==
    { PartitionEntry(b, t, LogicalBlockAddress(st), n, c1, c2) :
        b \in BOOLEAN, t \in TypeSamples, st \in StartSamples,
        n \in CountSamples, c1 \in EntryCHSSamples, c2 \in EntryCHSSamples }

MkSlot(attr, chs1, type, chs2, lba, cnt) ==
    <<attr>> \o chs1 \o <<type>> \o chs2 \o lba \o cnt

RawCHSSamples == { <<0, 0, 0>>, <<254, 255, 255>>, <<1, 65, 2>> }

RawU32Samples == { <<0, 0, 0, 0>>, <<100, 0, 0, 0>>, <<2, 0, 0, 0>>, <<255, 255, 255, 255>> }

FullSlots ==
    { MkSlot(a, c1, t, c2, l, n) :
        a \in {0, 128, 1, 129, 255}, c1 \in RawCHSSamples, t \in {0, 7, 131, 153, 255},
        c2 \in RawCHSSamples, l \in RawU32Samples, n \in RawU32Samples }

LinuxSlot ==
    MkSlot(128, <<32, 33, 0>>, 131, <<254, 255, 255>>, <<0, 8, 0, 0>>, <<0, 0, 255, 255>>)

EntrySources ==
    { Source("bytes", s) : s \in FullSlots }
    \cup { Source(k, d) : k \in {"bytes", "stream", "other"},
           d \in { <<>>, SubSeq(LinuxSlot, 1, 15), LinuxSlot, LinuxSlot \o <<0>> } }

\* MasterBootRecord objects
ZeroEntry ==
    PartitionEntry(FALSE, RawType(0), LogicalBlockAddress(WZero), WZero,
                   CHSAddress(0, 0, 0), CHSAddress(0, 0, 0))

LinuxEntry ==
    PartitionEntry(TRUE, PartitionIdOf(131), LogicalBlockAddress(W(0, 2048)),
                   W(65535, 65535), CHSAddress(0, 32, 33), CHSAddress(1023, 254, 63))

NtfsEntry ==
    PartitionEntry(FALSE, RawType(7), LogicalBlockAddress(W(65535, 65535)), W(1, 1),
                   CHSAddress(1023, 255, 63), CHSAddress(0, 0, 1))

BadEntry ==
    PartitionEntry(TRUE, RawType(153), LogicalBlockAddress(W(0, 63)), W(0, 100),
                   CHSAddress(0, 1, 1), CHSAddress(1024, 0, 0))

SlotObjects == { None, ZeroEntry, LinuxEntry, NtfsEntry, BadEntry }

UniqueIdSamples == { None, W(0, 0), W(0, 1), W(65535, 65535), W(65536, 0) }

MBRObjects ==
    { MasterBootRecord(u, <<p1, p2, p3, p4>>) :
        u \in UniqueIdSamples, p1 \in SlotObjects, p2 \in SlotObjects,
        p3 \in {None, ZeroEntry, NtfsEntry}, p4 \in {None, LinuxEntry, BadEntry} }

\* 512-byte sectors: boot code area, disk id, reserved bytes, 4 slots, marker
MkSector(fill, uid, res, s1, s2, s3, s4, marker) ==
    [i \in 1..440 |-> fill] \o uid \o res \o s1 \o s2 \o s3 \o s4 \o marker

Zero16 == [i \in 1..16 |-> 0]

NtfsSlot ==
    MkSlot(0, <<255, 255, 255>>, 7, <<0, 1, 0>>, <<255, 255, 255, 255>>, <<2, 0, 0, 0>>)

OddSlot ==
    MkSlot(129, <<1, 2, 3>>, 153, <<4, 5, 6>>, <<1, 2, 3, 4>>, <<5, 6, 7, 8>>)

SectorSlots == { Zero16, LinuxSlot, NtfsSlot, OddSlot }

MarkerSamples == { <<85, 170>>, <<170, 85>>, <<0, 0>>, <<85, 0>> }

FullSectors ==
    { MkSector(n[1], u, n[2], s1, s2, s3, s4, m) :
        n \in { <<0, <<0, 0>> >>, <<144, <<3, 0>> >> },
        u \in { <<0, 0, 0, 0>>, <<120, 86, 52, 255>> },
        s1 \in SectorSlots, s2 \in SectorSlots, s3 \in {Zero16, OddSlot},
        s4 \in {Zero16, NtfsSlot}, m \in MarkerSamples }

BaseSectors ==
    { MkSector(0, u, <<0, 0>>, s, LinuxSlot, Zero16, s, m) :
        u \in { <<0, 0, 0, 0>>, <<120, 86, 52, 18>> },
        s \in { Zero16, LinuxSlot }, m \in { <<85, 170>>, <<0, 0>> } }

\* lengths of short sources: at every offset the code slices at, and just
\* below a whole sector
ShortLengths == {0, 439, 443, 444, 461, 462, 509} \cup ((512 - MaxTrunc)..511)

MBRSources ==
    { Source("bytes", s) : s \in FullSectors }
    \cup { Source("stream", s) : s \in BaseSectors }
    \cup { Source(k, SubSeq(s, 1, n)) :
            k \in {"bytes", "stream"}, s \in BaseSectors, n \in ShortLengths }
    \cup { Source(k, s \o <<1, 2, 3>>) : k \in {"bytes", "stream"}, s \in BaseSectors }
    \cup { Source("other", s) : s \in BaseSectors }

(***************************************************************************)
(* The state: what the caller holds before and after each call.            *)
(*   obj  the object the caller constructed (None if it started from       *)
(*        bytes)                                                           *)
(*   buf  the source the caller supplied to a read (kind "none" if it      *)
(*        started from an object)                                          *)
(*   enc  the bytes returned by the last bytes(...) call                   *)
(*   dec  the object returned by the last read/parse call                  *)
(*   ret  the value returned by the last property read                     *)
(*   exc  the exception raised by the last call, "" if it returned         *)
(*   ignore_valid_marker  the flag passed to the last MasterBootRecord.read*)
(*   pc   where the caller is                                              *)
(***************************************************************************)
VARIABLES pc, obj, buf, enc, dec, ret, exc, ignore_valid_marker

vars == <<pc, obj, buf, enc, dec, ret, exc, ignore_valid_marker>>

NoSource == Source("none", <<>>)

InitFrom(p, o, b) ==
    /\ pc = p
    /\ obj = o
    /\ buf = b
    /\ enc = <<>>
    /\ dec = None
    /\ ret = None
    /\ exc = ""
    /\ ignore_valid_marker = FALSE

Init ==
    \/ \E o \in CHSObjects : InitFrom("chs_obj", o, NoSource)
    \/ \E b \in CHSBuffers : InitFrom("chs_buf", None, Source("bytes", b))
    \/ \E o \in EntryObjects : InitFrom("entry_obj", o, NoSource)
    \/ \E b \in EntrySources : InitFrom("entry_buf", None, b)
    \/ \E o \in MBRObjects : InitFrom("mbr_obj", o, NoSource)
    \/ \E b \in MBRSources : InitFrom("mbr_buf", None, b)

\* bytes(CHSAddress): on the caller's object, or on a parsed one
Call_CHSAddress_bytes ==
    /\ pc \in {"chs_obj", "chs_parsed"}
    /\ exc = ""
    /\ LET r == CHSAddress_bytes(IF pc = "chs_obj" THEN obj ELSE dec)
       IN /\ exc' = r.exc
          /\ enc' = IF r.exc = "" THEN r.v ELSE enc
    /\ pc' = IF pc = "chs_obj" THEN "chs_encoded" ELSE "chs_reencoded"
    /\ UNCHANGED <<obj, buf, dec, ret, ignore_valid_marker>>

\* CHSAddress.parse: on the caller's bytes, or on freshly encoded ones
Call_CHSAddress_parse ==
    /\ pc \in {"chs_buf", "chs_encoded"}
    /\ exc = ""
    /\ LET r == CHSAddress_parse(IF pc = "chs_buf" THEN buf.data ELSE enc)
       IN /\ exc' = r.exc
          /\ dec' = IF r.exc = "" THEN r.v ELSE dec
    /\ pc' = IF pc = "chs_buf" THEN "chs_parsed" ELSE "chs_decoded"
    /\ UNCHANGED <<obj, buf, enc, ret, ignore_valid_marker>>

\* bytes(PartitionEntry)
Call_PartitionEntry_bytes ==
    /\ pc \in {"entry_obj", "entry_parsed"}
    /\ exc = ""
    /\ (pc = "entry_parsed" => dec # None)
    /\ LET r == PartitionEntry_bytes(IF pc = "entry_obj" THEN obj ELSE dec)
       IN /\ exc' = r.exc
          /\ enc' = IF r.exc = "" THEN r.v ELSE enc
    /\ pc' = IF pc = "entry_obj" THEN "entry_encoded" ELSE "entry_reencoded"
    /\ UNCHANGED <<obj, buf, dec, ret, ignore_valid_marker>>

\* PartitionEntry.read
Call_PartitionEntry_read ==
    /\ pc \in {"entry_buf", "entry_encoded"}
    /\ exc = ""
    /\ LET r == PartitionEntry_read(IF pc = "entry_buf" THEN buf
                                    ELSE Source("bytes", enc))
       IN /\ exc' = r.exc
          /\ dec' = IF r.exc = "" THEN r.v ELSE dec
    /\ pc' = IF pc = "entry_buf" THEN "entry_parsed" ELSE "entry_decoded"
    /\ UNCHANGED <<obj, buf, enc, ret, ignore_valid_marker>>

\* the property PartitionEntry.end_block_address
Call_end_block_address ==
    /\ pc \in {"entry_obj", "entry_parsed"}
    /\ exc = ""
    /\ (pc = "entry_parsed" => dec # None)
    /\ ret' = end_block_address(IF pc = "entry_obj" THEN obj ELSE dec)
    /\ pc' = IF pc = "entry_obj" THEN "entry_obj_end" ELSE "entry_end"
    /\ UNCHANGED <<obj, buf, enc, dec, exc, ignore_valid_marker>>

\* the property PartitionEntry.byte_count
Call_byte_count ==
    /\ pc \in {"entry_obj", "entry_parsed"}
    /\ exc = ""
    /\ (pc = "entry_parsed" => dec # None)
    /\ ret' = byte_count(IF pc = "entry_obj" THEN obj ELSE dec)
    /\ pc' = IF pc = "entry_obj" THEN "entry_obj_count" ELSE "entry_count"
    /\ UNCHANGED <<obj, buf, enc, dec, exc, ignore_valid_marker>>

\* bytes(LogicalBlockAddress): on the start address of a decoded entry, or
\* on the end address just derived from it
Call_LogicalBlockAddress_bytes ==
    /\ pc \in {"entry_parsed", "entry_end"}
    /\ exc = ""
    /\ (pc = "entry_parsed" => dec # None)
    /\ LET r == LogicalBlockAddress_bytes(IF pc = "entry_parsed"
                                          THEN dec.start_block_address ELSE ret)
       IN /\ exc' = r.exc
          /\ enc' = IF r.exc = "" THEN r.v ELSE enc
    /\ pc' = IF pc = "entry_parsed" THEN "start_encoded" ELSE "end_encoded"
    /\ UNCHANGED <<obj, buf, dec, ret, ignore_valid_marker>>

\* bytes(MasterBootRecord)
Call_MasterBootRecord_bytes ==
    /\ pc \in {"mbr_obj", "mbr_parsed"}
    /\ exc = ""
    /\ (pc = "mbr_parsed" => dec # None)
    /\ LET r == MasterBootRecord_bytes(IF pc = "mbr_obj" THEN obj ELSE dec)
       IN /\ exc' = r.exc
          /\ enc' = IF r.exc = "" THEN r.v ELSE enc
    /\ pc' = IF pc = "mbr_obj" THEN "mbr_encoded" ELSE "mbr_reencoded"
    /\ UNCHANGED <<obj, buf, dec, ret, ignore_valid_marker>>

\* MasterBootRecord.read
Call_MasterBootRecord_read ==
    /\ pc \in {"mbr_buf", "mbr_encoded"}
    /\ exc = ""
    /\ \E ig \in BOOLEAN :
        /\ ignore_valid_marker' = ig
        /\ LET r == MasterBootRecord_read(IF pc = "mbr_buf" THEN buf
                                          ELSE Source("bytes", enc), ig)
           IN /\ exc' = r.exc
              /\ dec' = IF r.exc = "" THEN r.v ELSE dec
    /\ pc' = IF pc = "mbr_buf" THEN "mbr_parsed" ELSE "mbr_decoded"
    /\ UNCHANGED <<obj, buf, enc, ret>>

Next ==
    \/ Call_CHSAddress_bytes
    \/ Call_CHSAddress_parse
    \/ Call_PartitionEntry_bytes
    \/ Call_PartitionEntry_read
    \/ Call_end_block_address
    \/ Call_byte_count
    \/ Call_LogicalBlockAddress_bytes
    \/ Call_MasterBootRecord_bytes
    \/ Call_MasterBootRecord_read

Spec == Init /\ [][Next]_vars

(***************************************************************************)
(* Vocabulary of the properties.                                           *)
(***************************************************************************)
FitsU32(x) == x.cls = "int" /\ x.hi >= 0 /\ x.hi <= 65535 /\ x.lo >= 0 /\ x.lo <= 65535

InRangeCHS(c) ==
    /\ c.cls = "CHSAddress"
    /\ c.cylinder >= 0 /\ c.cylinder <= 1023
    /\ c.head >= 0 /\ c.head <= 255
    /\ c.sector >= 0 /\ c.sector <= 63

OutOfRangeCHS(c) == c.cylinder > 1023 \/ c.head > 255 \/ c.sector > 63

WellFormedEntry(e) ==
    /\ e.cls = "PartitionEntry"
    /\ InRangeCHS(e.start_chs)
    /\ InRangeCHS(e.end_chs)
    /\ e.partition_type.value \in 0..255
    /\ FitsU32(e.start_block_address.sector)
    /\ FitsU32(e.sector_count)

WellFormedMBR(m) ==
    /\ m.cls = "MasterBootRecord"
    /\ (m.unique_id = None \/ FitsU32(m.unique_id))
    /\ Len(m.partitions) = 4
    /\ \A i \in 1..4 : m.partitions[i] = None \/ WellFormedEntry(m.partitions[i])

AllSlotsPresent(m) == \A i \in 1..Len(m.partitions) : m.partitions[i] # None

\* little-endian value of the 4 bytes of b at 0-based offset off
LE32(b, off) == W(b[off + 3] + 256 * b[off + 4], b[off + 1] + 256 * b[off + 2])

SamePartitions(a, b) ==
    /\ Len(a) = Len(b)
    /\ \A i \in 1..Len(a) : PartitionEntry_eq(a[i], b[i])

(***************************************************************************)
(* C1 (as stated): for every MasterBootRecord, disk signature and slots    *)
(* present or absent, read(bytes(mbr)) with ignore_valid_marker=False      *)
(* returns a record whose disk signature and four slots equal mbr's.       *)
(***************************************************************************)
C1_RoundTripAnyRecord ==
    (pc = "mbr_decoded" /\ ~ignore_valid_marker /\ WellFormedMBR(obj)) =>
        /\ exc = ""
        /\ dec # None
        /\ dec.unique_id = obj.unique_id
        /\ SamePartitions(dec.partitions, obj.partitions)

(***************************************************************************)
(* C1 (amended): for every MasterBootRecord whose four slots are all       *)
(* present and encodable, bytes(mbr) succeeds and read(bytes(mbr)) with    *)
(* ignore_valid_marker=False returns a record whose four slots equal       *)
(* mbr's and whose disk signature equals mbr's when that is present and    *)
(* is 0 when it is absent.                                                 *)
(***************************************************************************)
C1_RoundTripPresentSlots ==
    (WellFormedMBR(obj) /\ AllSlotsPresent(obj)) =>
        /\ pc = "mbr_encoded" => exc = ""
        /\ (pc = "mbr_decoded" /\ ~ignore_valid_marker) =>
              /\ exc = ""
              /\ dec # None
              /\ dec.unique_id = (IF obj.unique_id = None THEN WZero ELSE obj.unique_id)
              /\ SamePartitions(dec.partitions, obj.partitions)

C1_Witness ==
    /\ pc = "mbr_decoded"
    /\ ~ignore_valid_marker
    /\ obj.unique_id = W(65535, 65535)
    /\ obj.partitions = <<LinuxEntry, NtfsEntry, ZeroEntry, LinuxEntry>>
    /\ dec # None
    /\ dec.unique_id = W(65535, 65535)
    /\ dec.partitions[2].start_block_address.sector = W(65535, 65535)

(***************************************************************************)
(* C2: encoding any MasterBootRecord, absent disk signature and absent     *)
(* slots included, succeeds and yields exactly 512 bytes, with 16 zero     *)
(* bytes at the offset of every absent slot, 0 at 0x1B8 for an absent      *)
(* signature, and 0x55 0xAA at 0x1FE.                                      *)
(***************************************************************************)
C2_EncodeAlwaysSucceeds ==
    (pc = "mbr_encoded" /\ WellFormedMBR(obj)) =>
        /\ exc = ""
        /\ Len(enc) = 512
        /\ \A i \in 1..4 : obj.partitions[i] = None =>
              \A k \in 1..16 : enc[PARTITION_OFFSETS[i] + k] = 0
        /\ obj.unique_id = None => \A k \in 441..444 : enc[k] = 0
        /\ enc[511] = 85
        /\ enc[512] = 170

(***************************************************************************)
(* C3: on a 512-byte buffer, read returns None (without raising) exactly   *)
(* when the little-endian 16-bit value at 0x1FE differs from 0xAA55 and    *)
(* ignore_valid_marker is False; otherwise it returns a record with the    *)
(* disk signature from 0x1B8 and four decoded partition slots.             *)
(***************************************************************************)
C3_SignatureGate ==
    (pc = "mbr_parsed" /\ buf.kind \in {"bytes", "stream"} /\ Len(buf.data) = 512) =>
        LET d == buf.data
            marker == d[511] + 256 * d[512]
        IN /\ exc = ""
           /\ (dec = None) <=> (marker # 43605 /\ ~ignore_valid_marker)
           /\ dec # None =>
                /\ dec.cls = "MasterBootRecord"
                /\ dec.unique_id = LE32(d, 440)
                /\ Len(dec.partitions) = 4
                /\ \A i \in 1..4 :
                     LET off == 446 + 16 * (i - 1)
                         p == dec.partitions[i]
                     IN /\ p.cls = "PartitionEntry"
                        /\ p.bootable = (d[off + 1] >= 128)
                        /\ p.partition_type.value = d[off + 5]
                        /\ p.start_chs.head = d[off + 2]
                        /\ p.end_chs.head = d[off + 6]
                        /\ p.start_block_address.sector = LE32(d, off + 8)
                        /\ p.sector_count = LE32(d, off + 12)

C3_Witness ==
    /\ pc = "mbr_parsed"
    /\ buf.kind = "bytes"
    /\ Len(buf.data) = 512
    /\ buf.data[511] = 170
    /\ buf.data[512] = 85
    /\ SubSeq(buf.data, 447, 462) = LinuxSlot
    /\ ~ignore_valid_marker
    /\ exc = ""
    /\ dec = None

C5_EntryRoundTrip ==
    WellFormedEntry(obj) =>
        /\ pc = "entry_encoded" => (exc = "" /\ Len(enc) = 16)
        /\ pc = "entry_decoded" =>
              /\ exc = ""
              /\ dec # None
              /\ PartitionEntry_eq(dec, obj)
              /\ dec.partition_type.value = obj.partition_type.value

C5_Witness ==
    /\ pc = "entry_decoded"
    /\ obj.partition_type = RawType(153)
    /\ obj.bootable
    /\ obj.start_block_address.sector = W(65535, 65535)
    /\ obj.start_chs = CHSAddress(1023, 255, 63)
    /\ dec.partition_type.value = 153
    /\ dec.bootable

(***************************************************************************)
(* C6: for every CHS triple with cylinder 0..1023, head 0..255 and sector  *)
(* 0..63, parse(bytes(chs)) equals chs.                                    *)
(***************************************************************************)
C6_CHSRoundTrip ==
    InRangeCHS(obj) =>
        /\ pc = "chs_encoded" => exc = ""
        /\ pc = "chs_decoded" => (exc = "" /\ dec = obj)

C6_Witness ==
    /\ pc = "chs_decoded"
    /\ obj = CHSAddress(1023, 255, 63)
    /\ dec = obj

(***************************************************************************)
(* C7: MasterBootRecord.read on a source of fewer than 512 bytes ends in   *)
(* the defined short-input outcome (None, or the declared ValueError),     *)
(* never in an error escaping from a lower-level unpacking step.           *)
(***************************************************************************)
C7_ShortInputHandled ==
    (pc = "mbr_parsed" /\ buf.kind \in {"bytes", "stream"} /\ Len(buf.data) < 512) =>
        \/ exc = "" /\ dec = None
        \/ exc = "ValueError"

(***************************************************************************)
(* C8: for every 512-byte sector that ends in 0x55 0xAA, is zero outside   *)
(* the disk signature, the four slots and the marker, and has attribute    *)
(* bytes 0x00 or 0x80, bytes(read(sector)) succeeds and is the sector.     *)
(***************************************************************************)
CleanSector(d) ==
    /\ Len(d) = 512
    /\ \A k \in 1..440 : d[k] = 0
    /\ d[445] = 0 /\ d[446] = 0
    /\ d[511] = 85 /\ d[512] = 170
    /\ \A i \in 0..3 : d[447 + 16 * i] \in {0, 128}

C8_ByteRoundTrip ==
    (buf.kind \in {"bytes", "stream"} /\ CleanSector(buf.data)) =>
        /\ pc = "mbr_parsed" => (exc = "" /\ dec # None)
        /\ pc = "mbr_reencoded" => (exc = "" /\ enc = buf.data)

C8_Witness ==
    /\ pc = "mbr_reencoded"
    /\ buf.kind = "bytes"
    /\ CleanSector(buf.data)
    /\ SubSeq(buf.data, 441, 444) = <<120, 86, 52, 255>>
    /\ SubSeq(buf.data, 447, 462) = LinuxSlot
    /\ SubSeq(buf.data, 463, 478) = NtfsSlot
    /\ enc = buf.data

(***************************************************************************)
(* C9: end_block_address is LogicalBlockAddress(start + sector_count - 1)  *)
(* when sector_count > 0 and start_block_address when sector_count = 0;    *)
(* byte_count is sector_count * 512; reading either leaves the entry's     *)
(* stored fields unchanged.                                                *)
(***************************************************************************)
C9_Receiver == IF pc \in {"entry_obj_end", "entry_obj_count"} THEN obj ELSE dec

C9_DerivedValues ==
    /\ pc \in {"entry_obj_end", "entry_end"} =>
          LET e == C9_Receiver
              st == e.start_block_address.sector
              n == e.sector_count
          IN IF n = WZero THEN ret = e.start_block_address
             ELSE /\ ret.cls = "LogicalBlockAddress"
                  /\ ret.sector.lo \in 0..65535
                  /\ LET dh == ret.sector.hi - st.hi - n.hi
                     IN /\ dh \in {-1, 0, 1}
                        /\ dh * 65536 + ret.sector.lo - st.lo - n.lo + 1 = 0
    /\ pc \in {"entry_obj_count", "entry_count"} =>
          LET n == C9_Receiver.sector_count
          IN /\ ret.lo % 512 = 0
             /\ ret.lo \div 512 = n.lo % 128
             /\ ret.hi = n.hi * 512 + (n.lo \div 128)

C9_DerivedFields ==
    /\ []C9_DerivedValues
    /\ [][pc' \in {"entry_obj_end", "entry_end", "entry_obj_count", "entry_count"}
            => (obj' = obj /\ dec' = dec)]_vars

C9_Witness ==
    /\ pc = "entry_obj_end"
    /\ obj.start_block_address = LogicalBlockAddress(W(0, 100))
    /\ obj.sector_count = W(0, 50)
    /\ ret = LogicalBlockAddress(W(0, 149))

(***************************************************************************)
(* C10: the start address and the derived end_block_address of every       *)
(* decoded PartitionEntry have a sector in 0..2^32-1, so encoding them     *)
(* always succeeds and yields exactly 4 bytes.                             *)
(***************************************************************************)
C10_AddressesFit ==
    /\ (pc = "entry_parsed" /\ exc = "" /\ dec # None) =>
          FitsU32(dec.start_block_address.sector)
    /\ pc = "entry_end" => FitsU32(ret.sector)
    /\ pc \in {"start_encoded", "end_encoded"} => (exc = "" /\ Len(enc) = 4)

====
